---- MODULE Spec2Model ----
(***************************************************************************)
(* TaskFlow: a priority task scheduler (src/src/main.rs).                  *)
(*                                                                         *)
(* A Scheduler owns one Mutex<Vec<(Priority, Box<dyn Executable>)>>.       *)
(* Producers call add_task(&self, ..), which locks, pushes, re-sorts and   *)
(* unlocks.  run_all(self) consumes the scheduler, spawns one worker       *)
(* thread that locks the vector, pops and executes every entry, and the    *)
(* caller joins the worker.                                                *)
(***************************************************************************)
EXTENDS Integers, Sequences, FiniteSets, TLC

(***************************************************************************)
(* Bounds of the model.                                                    *)
(***************************************************************************)
\* total number of add_task calls made before run_all
MaxAdds == 3

\* producer contexts sharing &Scheduler
Producers == {"p1", "p2"}

(***************************************************************************)
(* Program constants.                                                      *)
(***************************************************************************)
\* main.rs:53  `if self.duration_secs > 5`
THRESHOLD == 5

\* enum Priority (main.rs:31-35)
Priority == {"High", "Medium", "Low"}

\* enum TaskError (main.rs:11-15); ExecutionError carries a message
RefusedMsg == "duration too long, refused"
ExecutionError(msg) == [kind |-> "ExecutionError", msg |-> msg]
TimeOut == [kind |-> "TimeOut", msg |-> ""]
NotFound == [kind |-> "NotFound", msg |-> ""]
TaskError == {ExecutionError(RefusedMsg), TimeOut, NotFound}

\* Result<(), TaskError>
Ok == [ok |-> TRUE, err |-> [kind |-> "none", msg |-> ""]]
Err(e) == [ok |-> FALSE, err |-> e]
NoResult == [ok |-> FALSE, err |-> [kind |-> "unset", msg |-> ""]]

\* struct SimpleTask { name, duration_secs } (main.rs:44-47)
SimpleTask(name, secs) == [impl |-> "SimpleTask", name |-> name, duration_secs |-> secs]

\* another implementor of trait Executable (main.rs:39-42), one whose execute
\* fails with TimeOut or NotFound; duration_secs is unused for it
OtherTask(name) == [impl |-> "Other", name |-> name, duration_secs |-> 0]

\* the boxed tasks producers hand to add_task: durations at 0, at the
\* threshold and just above it, names not unique
Tasks ==
    { SimpleTask("A", 0),
      SimpleTask("B", THRESHOLD),
      SimpleTask("A", THRESHOLD + 1),
      OtherTask("B") }

NoEntry == [priority |-> "none", task |-> OtherTask(""), id |-> 0]

(***************************************************************************)
(* State.                                                                  *)
(***************************************************************************)
VARIABLES
    tasks,      \* the Vec inside the Mutex (main.rs:69)
    locked,     \* the Mutex is held
    pc,         \* per producer: position inside add_task
    arg,        \* per producer: the (priority, task) being added
    mpc,        \* the owner of the scheduler: "build", "join", "returned"
    wpc,        \* the worker thread's position in the closure of run_all
    cur,        \* the entry popped by `while let Some(..) = tasks.pop()`
    result,     \* the value of task.execute() being matched
    out,        \* lines printed by run_all and execute, in order
    slept,      \* thread::sleep calls made by execute, in order
    added,      \* history: entries in the order add_task acquired the lock
    executed,   \* history: entries in the order execute was called
    contended   \* history: some add_task was called while the Mutex was held

vars ==
    <<tasks, locked, pc, arg, mpc, wpc, cur, result, out, slept, added, executed, contended>>

(***************************************************************************)
(* Pure helpers.                                                           *)
(***************************************************************************)
\* the closure priority_val of add_task (main.rs:85-89)
priority_val(p) ==
    CASE p = "High" -> 0
      [] p = "Medium" -> 1
      [] p = "Low" -> 2

\* i32::cmp
IntCmp(x, y) == IF x < y THEN "Less" ELSE IF x = y THEN "Equal" ELSE "Greater"

cmp_Swapped(a, b) == IntCmp(priority_val(a.priority), priority_val(b.priority))

\* the comparator handed to sort_by (main.rs:91): b against a
cmp(a, b) == IntCmp(priority_val(b.priority), priority_val(a.priority))

RECURSIVE InsertSorted_BeforeEquals(_, _)
InsertSorted_BeforeEquals(s, x) ==
    IF s = <<>> THEN <<x>>
    ELSE IF cmp(x, Head(s)) # "Greater" THEN <<x>> \o s
    ELSE <<Head(s)>> \o InsertSorted_BeforeEquals(Tail(s), x)

\* insert x into the sorted sequence s, after every element that does not
\* compare Greater than x (stable)
RECURSIVE InsertSorted(_, _)
InsertSorted(s, x) ==
    IF s = <<>> THEN <<x>>
    ELSE IF cmp(x, Head(s)) = "Less" THEN <<x>> \o s
    ELSE <<Head(s)>> \o InsertSorted(Tail(s), x)

RECURSIVE StableSort(_, _)
StableSort(s, acc) ==
    IF s = <<>> THEN acc ELSE StableSort(Tail(s), InsertSorted(acc, Head(s)))

sort_by_Dedup(s) ==
    LET t == StableSort(s, <<>>) IN
    IF Len(t) >= 2 /\ t[Len(t) - 1].priority = t[Len(t)].priority
      THEN SubSeq(t, 1, Len(t) - 1)
      ELSE t

sort_by_Skipped(s) == s

\* Vec::sort_by (main.rs:84): a stable sort under cmp
sort_by(s) == StableSort(s, <<>>)

push_Overwrite(s, e) == IF s = <<>> THEN <<e>> ELSE [s EXCEPT ![Len(s)] = e]

\* Vec::push (main.rs:83)
push(s, e) == Append(s, e)

pop_Two(s) ==
    [item |-> s[Len(s)], rest |-> SubSeq(s, 1, IF Len(s) > 1 THEN Len(s) - 2 ELSE 0)]

\* Vec::pop on a non-empty vector (main.rs:108): the last element
pop(s) == [item |-> s[Len(s)], rest |-> SubSeq(s, 1, Len(s) - 1)]

Rejects_Late(secs) == secs > THRESHOLD + 1

Rejects_Early(secs) == secs >= THRESHOLD

\* the precondition of SimpleTask::execute (main.rs:53)
Rejects(secs) == secs > THRESHOLD

CanLock_NoMutex == TRUE

\* Mutex::lock returns only when the mutex is free (main.rs:82, 103)
CanLock == ~locked

\* impl fmt::Display for TaskError (main.rs:18-27): a fixed text per kind,
\* followed by the message for ExecutionError
fmt(e) ==
    CASE e.kind = "ExecutionError" -> <<"task execution failed: ", e.msg>>
      [] e.kind = "TimeOut" -> <<"task timed out">>
      [] e.kind = "NotFound" -> <<"task not found">>

\* one printed line: what it is, the task it names, the formatted detail
\* (priority or error text), the count of the opening banner, the stream
Line(ev, name, info, n, stream) ==
    [ev |-> ev, name |-> name, info |-> info, n |-> n, stream |-> stream]

OutcomeLine_AlwaysOk(r, name) == Line("ok", name, <<>>, 0, "stdout")

\* the two arms of the match on execute's result (main.rs:116-117): the
\* success line on stdout, or the error line with the error's Display text on
\* stderr
OutcomeLine(r, name) ==
    IF r.ok
      THEN Line("ok", name, <<>>, 0, "stdout")
      ELSE Line("err", name, fmt(r.err), 0, "stderr")

NextAfterOutcome_Abort(r) == IF r.ok THEN "pop" ELSE "finish"

\* after the match on execute's result (main.rs:115-119) the while loop
\* goes round again, whatever the result
NextAfterOutcome(r) == "pop"

(***************************************************************************)
(* Initial state: Scheduler::new() (main.rs:74-78).                        *)
(***************************************************************************)
Init ==
    /\ tasks = <<>>
    /\ locked = FALSE
    /\ pc = [p \in Producers |-> "idle"]
    /\ arg = [p \in Producers |-> NoEntry]
    /\ mpc = "build"
    /\ wpc = "none"
    /\ cur = NoEntry
    /\ result = NoResult
    /\ out = <<>>
    /\ slept = <<>>
    /\ added = <<>>
    /\ executed = <<>>
    /\ contended = FALSE

(***************************************************************************)
(* add_task (main.rs:81-93), one action per step of a producer.            *)
(***************************************************************************)
\* line 81: a producer calls add_task while it can still borrow the scheduler
AddCall(p) ==
    /\ mpc = "build"
    /\ pc[p] = "idle"
    /\ Len(added) + Cardinality({q \in Producers : pc[q] = "lock"}) < MaxAdds
    /\ pc' = [pc EXCEPT ![p] = "lock"]
    /\ contended' = (contended \/ locked)
    /\ UNCHANGED <<tasks, locked, arg, mpc, wpc, cur, result, out, slept, added, executed>>

\* line 82: self.tasks.lock().unwrap() returns the guard; the arguments are
\* the entry this call inserts
AddLock(p) ==
    /\ pc[p] = "lock"
    /\ CanLock
    /\ \E pr \in Priority, t \in Tasks :
          LET e == [priority |-> pr, task |-> t, id |-> Len(added) + 1] IN
          /\ arg' = [arg EXCEPT ![p] = e]
          /\ added' = Append(added, e)
    /\ locked' = TRUE
    /\ pc' = [pc EXCEPT ![p] = "push"]
    /\ UNCHANGED <<tasks, mpc, wpc, cur, result, out, slept, executed, contended>>

\* line 83: tasks.push((priority, task))
AddPush(p) ==
    /\ pc[p] = "push"
    /\ tasks' = push(tasks, arg[p])
    /\ pc' = [pc EXCEPT ![p] = "sort"]
    /\ UNCHANGED <<locked, arg, mpc, wpc, cur, result, out, slept, added, executed, contended>>

\* lines 84-92: tasks.sort_by(..)
AddSort(p) ==
    /\ pc[p] = "sort"
    /\ tasks' = sort_by(tasks)
    /\ pc' = [pc EXCEPT ![p] = "unlock"]
    /\ UNCHANGED <<locked, arg, mpc, wpc, cur, result, out, slept, added, executed, contended>>

\* line 93: the guard is dropped when add_task returns
AddUnlock(p) ==
    /\ pc[p] = "unlock"
    /\ locked' = FALSE
    /\ pc' = [pc EXCEPT ![p] = "idle"]
    /\ arg' = [arg EXCEPT ![p] = NoEntry]
    /\ UNCHANGED <<tasks, mpc, wpc, cur, result, out, slept, added, executed, contended>>

(***************************************************************************)
(* run_all (main.rs:96-126).                                               *)
(***************************************************************************)
RunAllSpawn_WhileAdding ==
    /\ mpc = "build"
    /\ mpc' = "join"
    /\ wpc' = "lock"
    /\ UNCHANGED <<tasks, locked, pc, arg, cur, result, out, slept, added, executed, contended>>

RunAllSpawn_HoldingLock ==
    /\ mpc = "build"
    /\ \A p \in Producers : pc[p] = "idle"
    /\ mpc' = "join"
    /\ wpc' = "lock"
    /\ locked' = TRUE
    /\ UNCHANGED <<tasks, pc, arg, cur, result, out, slept, added, executed, contended>>

\* lines 96-101: run_all takes self by value, so no add_task borrow is
\* outstanding; it spawns the worker
RunAllSpawn ==
    /\ mpc = "build"
    /\ \A p \in Producers : pc[p] = "idle"
    /\ mpc' = "join"
    /\ wpc' = "lock"
    /\ UNCHANGED <<tasks, locked, pc, arg, cur, result, out, slept, added, executed, contended>>

\* lines 103-105: the worker locks the vector and prints the opening banner
WorkerLock ==
    /\ wpc = "lock"
    /\ CanLock
    /\ locked' = TRUE
    /\ out' = Append(out, Line("banner", "", <<>>, Len(tasks), "stdout"))
    /\ wpc' = "pop"
    /\ UNCHANGED <<tasks, pc, arg, mpc, cur, result, slept, added, executed, contended>>

WorkerPop_ReleasesLock ==
    /\ wpc = "pop"
    /\ IF tasks = <<>>
          THEN /\ wpc' = "finish"
               /\ UNCHANGED <<tasks, cur, out, locked>>
          ELSE LET e == pop(tasks).item IN
               /\ cur' = e
               /\ tasks' = pop(tasks).rest
               /\ out' = Append(out, Line("announce", e.task.name, <<e.priority>>, 0, "stdout"))
               /\ locked' = FALSE
               /\ wpc' = "call"
    /\ UNCHANGED <<pc, arg, mpc, result, slept, added, executed, contended>>

WorkerPop_Silent ==
    /\ wpc = "pop"
    /\ IF tasks = <<>>
          THEN /\ wpc' = "finish"
               /\ UNCHANGED <<tasks, cur>>
          ELSE /\ cur' = pop(tasks).item
               /\ tasks' = pop(tasks).rest
               /\ wpc' = "call"
    /\ UNCHANGED <<locked, pc, arg, mpc, result, out, slept, added, executed, contended>>

\* lines 108-113: while let Some((priority, task)) = tasks.pop(), then the
\* line naming the priority and the task
WorkerPop ==
    /\ wpc = "pop"
    /\ IF tasks = <<>>
          THEN /\ wpc' = "finish"
               /\ UNCHANGED <<tasks, cur, out>>
          ELSE LET e == pop(tasks).item IN
               /\ cur' = e
               /\ tasks' = pop(tasks).rest
               /\ out' = Append(out, Line("announce", e.task.name, <<e.priority>>, 0, "stdout"))
               /\ wpc' = "call"
    /\ UNCHANGED <<locked, pc, arg, mpc, result, slept, added, executed, contended>>

\* line 115 into lines 51-52: SimpleTask::execute is entered and prints
ExecuteEnter ==
    /\ wpc = "call"
    /\ cur.task.impl = "SimpleTask"
    /\ executed' = Append(executed, cur)
    /\ out' = Append(out, Line("running", cur.task.name, <<>>, 0, "stdout"))
    /\ wpc' = "check"
    /\ UNCHANGED <<tasks, locked, pc, arg, mpc, cur, result, slept, added, contended>>

ExecuteCheck_SkipsReport ==
    /\ wpc = "check"
    /\ IF Rejects(cur.task.duration_secs)
          THEN /\ wpc' = "pop"
               /\ UNCHANGED result
          ELSE /\ wpc' = "sleep"
               /\ UNCHANGED result
    /\ UNCHANGED <<tasks, locked, pc, arg, mpc, cur, out, slept, added, executed, contended>>

\* lines 53-55: the threshold check of SimpleTask::execute
ExecuteCheck ==
    /\ wpc = "check"
    /\ IF Rejects(cur.task.duration_secs)
          THEN /\ result' = Err(ExecutionError(RefusedMsg))
               /\ wpc' = "report"
          ELSE /\ wpc' = "sleep"
               /\ UNCHANGED result
    /\ UNCHANGED <<tasks, locked, pc, arg, mpc, cur, out, slept, added, executed, contended>>

\* lines 57-58: thread::sleep(duration_secs), then Ok(())
ExecuteSleep ==
    /\ wpc = "sleep"
    /\ slept' = Append(slept, [id |-> cur.id, secs |-> cur.task.duration_secs])
    /\ result' = Ok
    /\ wpc' = "report"
    /\ UNCHANGED <<tasks, locked, pc, arg, mpc, cur, out, added, executed, contended>>

\* line 115 for the other implementor of Executable (main.rs:39-42): it
\* returns Err(TimeOut) or Err(NotFound)
ExecuteOther ==
    /\ wpc = "call"
    /\ cur.task.impl = "Other"
    /\ executed' = Append(executed, cur)
    /\ \E r \in {Err(TimeOut), Err(NotFound)} :
          result' = r
    /\ wpc' = "report"
    /\ UNCHANGED <<tasks, locked, pc, arg, mpc, cur, out, slept, added, contended>>

\* lines 115-119: the match on the result, then the empty line
WorkerReport ==
    /\ wpc = "report"
    /\ out' = out \o <<OutcomeLine(result, cur.task.name), Line("blank", "", <<>>, 0, "stdout")>>
    /\ wpc' = NextAfterOutcome(result)
    /\ cur' = NoEntry
    /\ result' = NoResult
    /\ UNCHANGED <<tasks, locked, pc, arg, mpc, slept, added, executed, contended>>

\* lines 122-123: the closing banner; the closure ends and drops the guard
WorkerFinish ==
    /\ wpc = "finish"
    /\ out' = Append(out, Line("done", "", <<>>, 0, "stdout"))
    /\ locked' = FALSE
    /\ wpc' = "exited"
    /\ UNCHANGED <<tasks, pc, arg, mpc, cur, result, slept, added, executed, contended>>

Join_NoWait ==
    /\ mpc = "join"
    /\ mpc' = "returned"
    /\ UNCHANGED <<tasks, locked, pc, arg, wpc, cur, result, out, slept, added, executed, contended>>

\* line 125: handle.join().unwrap(), then run_all returns
Join ==
    /\ mpc = "join"
    /\ wpc = "exited"
    /\ mpc' = "returned"
    /\ UNCHANGED <<tasks, locked, pc, arg, wpc, cur, result, out, slept, added, executed, contended>>

(***************************************************************************)
(* Specifications.                                                         *)
(***************************************************************************)
Worker ==
    \/ WorkerLock
    \/ WorkerPop
    \/ ExecuteEnter
    \/ ExecuteCheck
    \/ ExecuteSleep
    \/ ExecuteOther
    \/ WorkerReport
    \/ WorkerFinish

Next ==
    \/ \E p \in Producers : AddCall(p)
    \/ \E p \in Producers : AddLock(p)
    \/ \E p \in Producers : AddPush(p)
    \/ \E p \in Producers : AddSort(p)
    \/ \E p \in Producers : AddUnlock(p)
    \/ RunAllSpawn
    \/ Worker
    \/ Join

Spec == Init /\ [][Next]_vars

\* the worker thread and the joining caller are scheduled: a step of theirs
\* that stays possible is eventually taken
FairSpec == Spec /\ WF_vars(Worker) /\ WF_vars(Join)

(***************************************************************************)
(* Vocabulary of the properties.                                           *)
(***************************************************************************)
\* the order of enum Priority as the specification states it: High > Medium > Low
Level(p) ==
    CASE p = "High" -> 3
      [] p = "Medium" -> 2
      [] p = "Low" -> 1

Range(s) == {s[i] : i \in 1..Len(s)}

\* the success and error lines printed so far, in order
IsOutcome(l) == l.ev \in {"ok", "err"}
Outcomes == SelectSeq(out, IsOutcome)

\* how many elements of the sequence s satisfy name = n
CountName(s, n) == Cardinality({i \in 1..Len(s) : s[i] = n})
AddedNames == [i \in 1..Len(added) |-> added[i].task.name]
OutcomeNames == [i \in 1..Len(Outcomes) |-> Outcomes[i].name]

\* the contexts inside a critical section of the Mutex
WorkerHolds == wpc \in {"pop", "call", "check", "sleep", "report", "finish"}
AdderHolds(p) == pc[p] \in {"push", "sort", "unlock"}
Holders == {p \in Producers : AdderHolds(p)} \cup (IF WorkerHolds THEN {"worker"} ELSE {})

\* the context c takes a step
Steps(c) == IF c = "worker" THEN wpc' # wpc ELSE pc'[c] # pc[c]

(***************************************************************************)
(* Properties.                                                             *)
(***************************************************************************)
\* C1: the tasks run_all executes are in non-increasing priority order: no
\* task is executed before a task of strictly higher priority.
C1_DrainOrderNonIncreasing ==
    \A i, j \in 1..Len(executed) :
        i < j => Level(executed[i].priority) >= Level(executed[j].priority)

\* C1 witness: run_all returned after adds made in increasing priority order
\* (Low, Medium, High), all three executed.
C1_Witness ==
    /\ mpc = "returned"
    /\ Len(added) = 3
    /\ added[1].priority = "Low"
    /\ added[2].priority = "Medium"
    /\ added[3].priority = "High"
    /\ Len(executed) = 3

\* C2: no entry is ever executed twice, and when run_all returns exactly one
\* outcome line exists per added task, the names of the outcome lines are the
\* names added (as multisets), and every added entry was executed once.
C2_ExecutedExactlyOnce ==
    /\ \A i, j \in 1..Len(executed) : executed[i] = executed[j] => i = j
    /\ mpc = "returned" =>
          /\ Len(Outcomes) = Len(added)
          /\ \A n \in {t.name : t \in Tasks} :
                CountName(OutcomeNames, n) = CountName(AddedNames, n)
          /\ \A i \in 1..Len(added) :
                Cardinality({j \in 1..Len(executed) : executed[j] = added[i]}) = 1

\* C2 witness: run_all returned after three adds, two of them with the same
\* name and one with another.
C2_Witness ==
    /\ mpc = "returned"
    /\ Len(added) = 3
    /\ added[1].task.name = "A"
    /\ added[2].task.name = "B"
    /\ added[3].task.name = "A"
    /\ Len(Outcomes) = 3

\* C3: concurrent adds lose and duplicate nothing: whenever no add_task is
\* between its lock and its unlock the vector holds exactly the entries added
\* and not yet popped, and when run_all returns the number of executed tasks
\* is the number of add_task calls.
C3_ConcurrentAddsKeepEveryEntry ==
    /\ (\A p \in Producers : ~AdderHolds(p)) =>
          /\ Len(tasks) + Len(executed) + (IF wpc = "call" THEN 1 ELSE 0)
                = Len(added)
          /\ \A i \in 1..Len(added) :
                \/ added[i] \in Range(tasks)
                \/ added[i] \in Range(executed)
                \/ added[i] = cur
    /\ mpc = "returned" => Len(executed) = Len(added)

\* C3 witness: run_all returned having executed three tasks, after a run in
\* which a producer called add_task while another context held the lock.
C3_Witness ==
    /\ mpc = "returned"
    /\ contended
    /\ Len(executed) = 3

\* C4 as stated: with no adder holding the lock, the stored vector reads
\* High entries first, then Medium, then Low.
C4_StoredHighFirst ==
    (\A p \in Producers : ~AdderHolds(p)) =>
        \A i, j \in 1..Len(tasks) :
            i < j => Level(tasks[i].priority) >= Level(tasks[j].priority)

\* C4 amended: with no adder holding the lock, the stored vector reads Low
\* entries first, then Medium, then High: an entry of lower priority is
\* positioned before every entry of higher priority, so the highest priority
\* is at the end, where pop takes it.
C4_StoredLowFirst ==
    (\A p \in Producers : ~AdderHolds(p)) =>
        \A i, j \in 1..Len(tasks) :
            i < j => Level(tasks[i].priority) <= Level(tasks[j].priority)

\* C4 witness: no adder holds the lock and the vector holds a Low, a Medium
\* and a High entry that were added in the order High, Medium, Low.
C4_Witness ==
    /\ \A p \in Producers : ~AdderHolds(p)
    /\ Len(tasks) = 3
    /\ added[1].priority = "High"
    /\ added[2].priority = "Medium"
    /\ added[3].priority = "Low"
    /\ tasks[1].priority = "Low"
    /\ tasks[3].priority = "High"

\* C5: a failure does not abort the run: the step that reports an error
\* leaves the queue as it is and goes back to the loop head, and when run_all
\* returns, every entry that was still queued when a task failed has been
\* executed after it.
C5_FailureDoesNotAbort ==
    /\ [][(wpc = "report" /\ ~result.ok) => (wpc' = "pop" /\ tasks' = tasks)]_vars
    /\ [](mpc = "returned" =>
            \A k \in 1..Len(Outcomes) :
                Outcomes[k].ev = "err" =>
                    \A i \in 1..Len(added) :
                        (\A j \in 1..k : executed[j] # added[i]) =>
                            \E j \in (k + 1)..Len(executed) : executed[j] = added[i])

\* C5 witness: run_all returned after a run whose first task failed with
\* ExecutionError and whose second failed with TimeOut, each followed by a
\* further execution; the third succeeded.
C5_Witness ==
    /\ mpc = "returned"
    /\ Len(Outcomes) = 3
    /\ Outcomes[1].ev = "err"
    /\ Outcomes[1].info = fmt(ExecutionError(RefusedMsg))
    /\ Outcomes[2].ev = "err"
    /\ Outcomes[2].info = fmt(TimeOut)
    /\ Outcomes[3].ev = "ok"
    /\ Len(executed) = 3

\* C6: once run_all has been called it eventually returns, for every queue
\* content, the empty queue included.
C6_RunAllTerminates == (mpc = "join") ~> (mpc = "returned")

\* C6 witness: run_all returned after the worker emptied a queue of three.
C6_Witness ==
    /\ mpc = "returned"
    /\ wpc = "exited"
    /\ Len(added) = 3
    /\ tasks = <<>>

\* C7: when run_all returns the worker has exited, the queue is empty, no
\* task is popped but unfinished, and every execution has its outcome line.
C7_ReturnsAfterDrain ==
    mpc = "returned" =>
        /\ wpc = "exited"
        /\ tasks = <<>>
        /\ cur = NoEntry
        /\ Len(executed) = Len(added)
        /\ Len(Outcomes) = Len(executed)

\* C7 witness: run_all returned after a run in which a task slept for the
\* threshold duration.
C7_Witness ==
    /\ mpc = "returned"
    /\ Len(executed) >= 2
    /\ \E i \in 1..Len(slept) : slept[i].secs = 5

\* C8: SimpleTask.execute with a duration above 5 returns ExecutionError and
\* never reaches the sleep: nothing sleeps for more than 5, and the result
\* being reported for such a task is the refusal.
C8_OverlongRefusedWithoutSleep ==
    /\ \A i \in 1..Len(slept) : slept[i].secs <= 5
    /\ (wpc = "sleep") => cur.task.duration_secs <= 5
    /\ (wpc = "report" /\ cur.task.impl = "SimpleTask" /\ cur.task.duration_secs > 5) =>
          /\ result = Err(ExecutionError(RefusedMsg))
          /\ \A i \in 1..Len(slept) : slept[i].id # cur.id

\* C8 witness: the result of a SimpleTask of duration 6 is being reported.
C8_Witness ==
    /\ wpc = "report"
    /\ cur.task.impl = "SimpleTask"
    /\ cur.task.duration_secs = 6
    /\ ~result.ok

\* C9: SimpleTask.execute with a duration of at most 5 sleeps for exactly that
\* duration and returns success: when its result is being reported, the
\* result is Ok and the last sleep is this task's, for its duration.
C9_WithinThresholdSleepsAndSucceeds ==
    (wpc = "report" /\ cur.task.impl = "SimpleTask" /\ cur.task.duration_secs <= 5) =>
        /\ result = Ok
        /\ Len(slept) > 0
        /\ slept[Len(slept)] = [id |-> cur.id, secs |-> cur.task.duration_secs]

\* C9 witness: the result of a SimpleTask of duration 0 is being reported
\* after a SimpleTask of duration 5 has slept.
C9_Witness ==
    /\ wpc = "report"
    /\ cur.task.impl = "SimpleTask"
    /\ cur.task.duration_secs = 0
    /\ result.ok
    /\ \E i \in 1..Len(slept) : slept[i].secs = 5

\* C10: at most one context is inside a critical section and the Mutex is
\* held exactly then; the vector changes only in a step of the context that
\* holds the lock; and between the push and the sort of one add_task no other
\* context takes a step that reads or changes the vector.
C10_MutualExclusionAndAtomicAdd ==
    /\ [](Cardinality(Holders) <= 1 /\ (locked <=> Holders # {}))
    /\ [][tasks' # tasks => \E c \in Holders : Steps(c)]_vars
    /\ [][\A p \in Producers :
            pc[p] = "sort" =>
                /\ tasks' # tasks => Steps(p)
                /\ \A q \in Producers \ {p} : ~(pc[q] \in {"push", "sort"} /\ Steps(q))
                /\ ~(WorkerHolds /\ Steps("worker"))]_vars

\* C10 witness: a producer has pushed and not yet sorted while the other
\* producer is blocked in lock().
C10_Witness ==
    /\ pc["p1"] = "sort"
    /\ pc["p2"] = "lock"
    /\ Len(tasks) = 2
    /\ locked

\* the worker is inside task.execute() (main.rs:115, 51-59)
Executing == wpc \in {"check", "sleep"}

\* C11 as stated: no task execution happens while the lock is held.
C11_NoExecutionUnderLock == Executing => ~locked

\* C11 amended: no task execution happens while an add_task holds the lock,
\* an add_task holds it only for its push and its sort, and a producer
\* blocked in lock() is blocked by another add_task, never by the worker;
\* the worker itself holds the lock from the opening banner to the closing
\* one, every execute included, but by then no add_task can be waiting.
C11_AddersNeverWaitForExecution ==
    /\ \A p \in Producers : AdderHolds(p) => (wpc = "none" /\ cur = NoEntry)
    /\ \A p \in Producers :
          (pc[p] = "lock" /\ locked) =>
              /\ ~WorkerHolds
              /\ \E q \in Producers \ {p} : AdderHolds(q)
    /\ WorkerHolds => (locked /\ \A p \in Producers : pc[p] = "idle")

\* C11 witness: a task is sleeping inside execute while the worker holds the
\* lock and entries are still queued, after a run in which a producer had to
\* wait for another producer's add_task.
C11_Witness ==
    /\ wpc = "sleep"
    /\ locked
    /\ tasks # <<>>
    /\ contended

\* the lifecycle of the entry with identity i, read from a queue t, a popped
\* entry c, the executions ex and the outcome lines oc printed so far: it is
\* Queued while it is in the vector, Draining while it is the popped entry,
\* Succeeded or Failed once its outcome line is printed
IsQueued(i, t) == \E j \in 1..Len(t) : t[j].id = i
IsDraining(i, c) == c.id = i
HasOutcome(i, ex, oc, ev) ==
    \E k \in 1..Len(oc) : k <= Len(ex) /\ ex[k].id = i /\ oc[k].ev = ev

StatusIn(i, t, c, ex, oc) ==
    IF IsDraining(i, c) THEN "Draining"
    ELSE IF IsQueued(i, t) THEN "Queued"
    ELSE IF HasOutcome(i, ex, oc, "ok") THEN "Succeeded"
    ELSE IF HasOutcome(i, ex, oc, "err") THEN "Failed"
    ELSE "NotQueued"

\* in how many of the four lifecycle states the entry i is at once
StatusCount(i, t, c, ex, oc) ==
    (IF IsQueued(i, t) THEN 1 ELSE 0) + (IF IsDraining(i, c) THEN 1 ELSE 0)
        + (IF HasOutcome(i, ex, oc, "ok") THEN 1 ELSE 0)
        + (IF HasOutcome(i, ex, oc, "err") THEN 1 ELSE 0)

Status(i) == StatusIn(i, tasks, cur, executed, Outcomes)

\* C12: every entry is in at most one lifecycle state and moves only from
\* not-yet-pushed to Queued, from Queued to Draining and from Draining to
\* Succeeded or Failed; at most one entry is Draining; executions are steps
\* of the worker alone; and an entry is removed from the queue only when
\* every entry removed before it is Succeeded or Failed.
C12_TaskLifecycle ==
    /\ [](LET oc == Outcomes IN
          /\ \A i \in 1..Len(added) : StatusCount(i, tasks, cur, executed, oc) <= 1
          /\ \A i, j \in 1..Len(added) :
                (IsDraining(i, cur) /\ IsDraining(j, cur)) => i = j)
    /\ [][\/ <<tasks, cur, executed, out>>' = <<tasks, cur, executed, out>>
          \/ LET oc == Outcomes
                 oc2 == SelectSeq(out', IsOutcome)
             IN \A i \in 1..Len(added') :
                   LET a == StatusIn(i, tasks, cur, executed, oc)
                       b == StatusIn(i, tasks', cur', executed', oc2)
                   IN \/ a = b
                      \/ a = "NotQueued" /\ b = "Queued"
                      \/ a = "Queued" /\ b = "Draining"
                      \/ a = "Draining" /\ b \in {"Succeeded", "Failed"}]_vars
    /\ [][executed' # executed => (wpc' # wpc /\ pc' = pc /\ mpc' = mpc)]_vars
    /\ [][Len(tasks') < Len(tasks) =>
            /\ cur = NoEntry
            /\ LET oc == Outcomes IN
               \A i \in 1..Len(added) :
                  StatusIn(i, tasks, cur, executed, oc) \in {"Queued", "Succeeded", "Failed"}]_vars

\* C12 witness: one entry has Failed, one is Draining inside execute and one
\* is still Queued.
C12_Witness ==
    /\ Len(added) = 3
    /\ wpc = "sleep"
    /\ \E i, j, k \in 1..3 :
          /\ Status(i) = "Failed"
          /\ Status(j) = "Draining"
          /\ Status(k) = "Queued"

\* the lines naming a priority and a task printed so far, in order
IsAnnounce(l) == l.ev = "announce"
Announces == SelectSeq(out, IsAnnounce)

\* C13: the lines of one run_all are ordered: the opening banner is the first
\* line and precedes every announcement and execution; each task's
\* announcement (name and priority) directly precedes its execution, whose
\* only lines are its own, and its one outcome line directly follows; the
\* closing banner is the last line, after the last outcome, and is printed
\* before run_all returns.
C13_EventOrder ==
    /\ wpc \in {"none", "lock"} => (out = <<>> /\ executed = <<>>)
    /\ out # <<>> => out[1].ev = "banner"
    /\ \A i \in 2..Len(out) :
          /\ out[i].ev # "banner"
          /\ out[i].ev = "announce" =>
                /\ out[i - 1].ev \in {"banner", "blank"}
                /\ i < Len(out) =>
                      (out[i + 1].ev \in {"running", "ok", "err"} /\ out[i + 1].name = out[i].name)
          /\ out[i].ev = "running" =>
                /\ out[i - 1].ev = "announce" /\ out[i - 1].name = out[i].name
                /\ i < Len(out) => (IsOutcome(out[i + 1]) /\ out[i + 1].name = out[i].name)
          /\ IsOutcome(out[i]) =>
                /\ out[i - 1].ev \in {"announce", "running"} /\ out[i - 1].name = out[i].name
                /\ i < Len(out) /\ out[i + 1].ev = "blank"
          /\ out[i].ev = "blank" => IsOutcome(out[i - 1])
          /\ out[i].ev = "done" => (i = Len(out) /\ out[i - 1].ev \in {"banner", "blank"})
    /\ Len(Outcomes) <= Len(executed)
    /\ Len(executed) <= Len(Announces)
    /\ Len(Announces) <= Len(Outcomes) + 1
    /\ \A k \in 1..Len(executed) :
          /\ Announces[k].name = executed[k].task.name
          /\ Announces[k].info = <<executed[k].priority>>
    /\ wpc \in {"call", "check", "sleep", "report"} =>
          /\ Len(Announces) = Len(Outcomes) + 1
          /\ Announces[Len(Announces)].name = cur.task.name
          /\ Announces[Len(Announces)].info = <<cur.priority>>
    /\ wpc = "exited" <=> (out # <<>> /\ out[Len(out)].ev = "done")
    /\ mpc = "returned" => (out # <<>> /\ out[Len(out)].ev = "done")

\* C13 witness: run_all returned after printing the banner, the lines of a
\* successful SimpleTask, the lines of a failing one and the closing banner.
C13_Witness ==
    /\ mpc = "returned"
    /\ Len(out) = 10
    /\ out[1].ev = "banner" /\ out[1].n = 2
    /\ out[2].ev = "announce" /\ out[3].ev = "running" /\ out[4].ev = "ok" /\ out[5].ev = "blank"
    /\ out[6].ev = "announce" /\ out[7].ev = "running" /\ out[8].ev = "err" /\ out[9].ev = "blank"
    /\ out[10].ev = "done"

\* C14: the outcome line of each executed task matches the result of its
\* execute: the step that reports a result prints the success line with the
\* task's name exactly when the result is Ok and otherwise the error line
\* with the task's name and the text of that very error; every outcome line
\* printed so far is the one its task's execute calls for; no execution has
\* two outcome lines; and distinct errors have distinct texts.
C14_OutcomeMatchesResult ==
    /\ [][wpc = "report" =>
            /\ Len(out') = Len(out) + 2
            /\ SubSeq(out', 1, Len(out)) = out
            /\ LET l == out'[Len(out) + 1] IN
               /\ l.name = cur.task.name
               /\ l.ev = "ok" <=> result.ok
               /\ l.ev = "err" <=> ~result.ok
               /\ ~result.ok => l.info = fmt(result.err)
            /\ ~IsOutcome(out'[Len(out) + 2])]_vars
    /\ [](/\ Len(Outcomes) <= Len(executed)
          /\ \A k \in 1..Len(Outcomes) :
                LET t == executed[k].task
                    l == Outcomes[k]
                IN /\ l.name = t.name
                   /\ (t.impl = "SimpleTask" /\ t.duration_secs <= 5) => l.ev = "ok"
                   /\ (t.impl = "SimpleTask" /\ t.duration_secs > 5) =>
                         (l.ev = "err" /\ l.info = fmt(ExecutionError(RefusedMsg)))
                   /\ t.impl = "Other" =>
                         (l.ev = "err" /\ l.info \in {fmt(TimeOut), fmt(NotFound)})
          /\ \A e1, e2 \in TaskError : fmt(e1) = fmt(e2) => e1 = e2)

\* C14 witness: run_all returned after a success line for task "A", an error
\* line for task "B" carrying the TimeOut text and an error line for task "A"
\* carrying the refusal.
C14_Witness ==
    /\ mpc = "returned"
    /\ Len(Outcomes) = 3
    /\ \E i, j, k \in 1..3 :
          /\ Outcomes[i].ev = "ok" /\ Outcomes[i].name = "A"
          /\ Outcomes[j].ev = "err" /\ Outcomes[j].name = "B" /\ Outcomes[j].info = fmt(TimeOut)
          /\ Outcomes[k].ev = "err" /\ Outcomes[k].name = "A"
          /\ Outcomes[k].info = fmt(ExecutionError(RefusedMsg))

\* the (priority, task) pair of an entry, and how often a pair occurs in s
Pair(e) == <<e.priority, e.task>>
CountPair(s, pr) == Cardinality({i \in 1..Len(s) : Pair(s[i]) = pr})
Pairs(s) == {Pair(s[i]) : i \in 1..Len(s)}

\* C15: the scheduler starts empty; the push of an add_task makes the vector
\* one longer, adding one occurrence of the pushed pair and changing no other
\* pair's count; its sort keeps the length and every pair's count; the vector
\* grows only in a push and shrinks only in a pop of run_all's worker; and
\* every queued entry still has the priority and task it was added with.
C15_AddTaskFrame ==
    /\ tasks = <<>>
    /\ [][\A p \in Producers :
            /\ (pc[p] = "push" /\ pc'[p] = "sort") =>
                  /\ Len(tasks') = Len(tasks) + 1
                  /\ \A pr \in Pairs(tasks) \cup Pairs(tasks') :
                        CountPair(tasks', pr)
                            = CountPair(tasks, pr) + (IF pr = Pair(arg[p]) THEN 1 ELSE 0)
            /\ (pc[p] = "sort" /\ pc'[p] = "unlock") =>
                  /\ Len(tasks') = Len(tasks)
                  /\ \A pr \in Pairs(tasks) \cup Pairs(tasks') :
                        CountPair(tasks', pr) = CountPair(tasks, pr)]_vars
    /\ [][Len(tasks') > Len(tasks) => \E p \in Producers : pc[p] = "push" /\ pc'[p] = "sort"]_vars
    /\ [][Len(tasks') < Len(tasks) => (mpc = "join" /\ wpc = "pop" /\ wpc' = "call")]_vars
    /\ [](\A j \in 1..Len(tasks) :
            /\ tasks[j].id \in 1..Len(added)
            /\ tasks[j] = added[tasks[j].id])

\* C15 witness: an add_task has pushed and sorted a third entry whose pair
\* equals one already queued, and all three are in the vector.
C15_Witness ==
    /\ \E p \in Producers : pc[p] = "unlock"
    /\ Len(tasks) = 3
    /\ Len(added) = 3
    /\ Pair(added[3]) = Pair(added[1])
    /\ Pair(added[2]) # Pair(added[1])

\* C16: entries of equal priority lie in the vector in the order their adds
\* acquired the lock; a removal takes the last entry of the vector; so tasks
\* of one priority are executed most recently added first, and the whole
\* drain order is fixed by the order of the adds: higher priority first and,
\* within a priority, later add first, over exactly the entries added.
C16_TieBreakReverseInsertion ==
    /\ [](\A i, j \in 1..Len(tasks) :
            (i < j /\ tasks[i].priority = tasks[j].priority) => tasks[i].id < tasks[j].id)
    /\ [][Len(tasks') < Len(tasks) =>
            /\ cur' = tasks[Len(tasks)]
            /\ tasks' = SubSeq(tasks, 1, Len(tasks) - 1)]_vars
    /\ [](\A i, j \in 1..Len(executed) :
            i < j =>
                \/ Level(executed[i].priority) > Level(executed[j].priority)
                \/ /\ executed[i].priority = executed[j].priority
                   /\ executed[i].id > executed[j].id)
    /\ [](mpc = "returned" =>
            /\ Len(executed) = Len(added)
            /\ Range(executed) = Range(added))

\* C16 witness: two Medium entries were added, then a High one; run_all
\* returned having executed the third, then the second, then the first.
C16_Witness ==
    /\ mpc = "returned"
    /\ Len(added) = 3
    /\ added[1].priority = "Medium"
    /\ added[2].priority = "Medium"
    /\ added[3].priority = "High"
    /\ Len(executed) = 3
    /\ executed[1].id = 3
    /\ executed[2].id = 2
    /\ executed[3].id = 1

\* C17: the worker takes the lock once, at drain start, and keeps it until it
\* has printed the closing banner, after which the lock is never taken again;
\* from the call of run_all on the vector never grows and shrinks by exactly
\* one entry per removal; the count of the opening banner is the number of
\* entries still queued plus those removed so far, and when run_all returns
\* it is the number of tasks executed and of outcome lines printed.
C17_DrainHoldsLockAndCountMatches ==
    /\ [](WorkerHolds => locked)
    /\ [][locked' # locked =>
            \/ mpc = "build"
            \/ wpc = "lock" /\ locked'
            \/ wpc = "finish" /\ ~locked']_vars
    /\ [](wpc = "exited" => ~locked)
    /\ [][mpc # "build" =>
            /\ Len(tasks') <= Len(tasks)
            /\ Len(tasks') >= Len(tasks) - 1]_vars
    /\ [](out # <<>> =>
            out[1].n = Len(tasks) + Len(executed) + (IF wpc = "call" THEN 1 ELSE 0))
    /\ [](mpc = "returned" =>
            /\ out # <<>>
            /\ out[1].n = Len(executed)
            /\ out[1].n = Len(Outcomes))

\* C17 witness: run_all returned; the opening banner announced three tasks
\* and three outcome lines were printed.
C17_Witness ==
    /\ mpc = "returned"
    /\ out[1].n = 3
    /\ Len(Outcomes) = 3
    /\ ~locked

====
